---- MODULE Spec2Model ----
(***************************************************************************)
(* Movie-review backend (src/backend/movie.py): the two tables MovieDB and *)
(* CommentDB, the six request handlers and the remote sentiment adapter.   *)
(*                                                                         *)
(* Store: the fallback SQLite database the module selects when             *)
(* DATABASE_URL is unset (movie.py:25-32).  Row ids are INTEGER PRIMARY    *)
(* KEY rowids (largest id in the table plus one), the unique index on      *)
(* MovieDB.name is enforced, and the foreign key of CommentDB.movie_id is  *)
(* declared but not enforced, since the engine is created without turning  *)
(* foreign-key enforcement on.                                             *)
(*                                                                         *)
(* Granularity: the handlers of concurrent requests interleave.  The reads *)
(* that open a handler form one step, the blocking classifier call is a    *)
(* step, and the writes with their commit form one step.  MaxRequests      *)
(* bounds the number of requests served in a behaviour.                    *)
(*                                                                         *)
(* Numbers: confidences and their sums are integers in hundredths          *)
(* (0.5 is 50); an average is the exact fraction num/den.                  *)
(***************************************************************************)
EXTENDS Integers, Sequences, FiniteSets, TLC

\* ---------------------------------------------------------------- bounds
MaxRequests == 4

\* ---------------------------------------------------------------- inputs
Procs == {"p1", "p2"}
Names == {"Dune", "Heat"}
Infos == {"i1", "i2"}
Users == {"al", "bo"}
RateInputs == {0, 1, 5}

VARIABLES movies, comments, served, pc, req, loc, resp, out_text, analysis

vars == <<movies, comments, served, pc, req, loc, resp, out_text, analysis>>
store == <<movies, comments>>
frames == <<pc, req, loc, resp>>
adapter == <<out_text, analysis>>

\* ------------------------------------------------------------ JSON values
Absent == [t |-> "absent", s |-> "", n |-> 0]
Null == [t |-> "null", s |-> "", n |-> 0]
JTrue == [t |-> "bool", s |-> "", n |-> 1]
JNaN == [t |-> "nan", s |-> "", n |-> 0]
JStr(s) == [t |-> "str", s |-> s, n |-> 0]
JNum(n) == [t |-> "num", s |-> "", n |-> n]

Labels == {"POSITIVE", "NEUTRAL", "NEGATIVE"}
LabelStrings == {"POSITIVE", "NEUTRAL", "NEGATIVE", "positive", "Negative", "HAPPY", ""}
LabelValues == {Absent, Null} \cup {JStr(s) : s \in LabelStrings}
ConfNumbers == {-50, 0, 30, 100, 150}
ConfValues == {Absent, Null, JTrue, JNaN, JStr("0.7"), JStr("high")} \cup {JNum(n) : n \in ConfNumbers}

NotJson == [kind |-> "not_json", label |-> Absent, confidence |-> Absent]
NotObject == [kind |-> "not_object", label |-> Absent, confidence |-> Absent]
Object(l, c) == [kind |-> "object", label |-> l, confidence |-> c]
Payloads == {NotJson, NotObject} \cup {Object(l, c) : l \in LabelValues, c \in ConfValues}
NoText == [kind |-> "none", label |-> Absent, confidence |-> Absent]
NoAnalysis == [raised |-> FALSE, label |-> "", confidence |-> 0, set |-> FALSE]

\* ---------------------------------------------------- sentiment adapter
\* str(x) of the value found under "label" (the default "NEUTRAL" when absent)
PyStr(v) == IF v.t = "null" THEN "None" ELSE v.s

\* str.upper on the label strings
Upper(s) ==
  CASE s = "positive" -> "POSITIVE"
    [] s = "Negative" -> "NEGATIVE"
    [] s = "None" -> "NONE"
    [] OTHER -> s

\* float(x): ok is FALSE where Python raises TypeError or ValueError
PyFloat(v) ==
  CASE v.t = "num" -> [ok |-> TRUE, nan |-> FALSE, n |-> v.n]
    [] v.t = "bool" -> [ok |-> TRUE, nan |-> FALSE, n |-> 100 * v.n]
    [] v.t = "nan" -> [ok |-> TRUE, nan |-> TRUE, n |-> 0]
    [] v.t = "str" /\ v.s = "0.7" -> [ok |-> TRUE, nan |-> FALSE, n |-> 70]
    [] OTHER -> [ok |-> FALSE, nan |-> FALSE, n |-> 0]

\* x < y on floats: every comparison with NaN is false
FloatLess(x, y) == ~x.nan /\ ~y.nan /\ x.n < y.n
\* min(a, b) and max(a, b) of Python: the first argument unless the second wins
PyMin(a, b) == IF FloatLess(b, a) THEN b ELSE a
PyMax(a, b) == IF FloatLess(a, b) THEN b ELSE a
Float(n) == [ok |-> TRUE, nan |-> FALSE, n |-> n]

ClampNone(c) == c
Clamp(c) == PyMax(Float(0), PyMin(Float(100), c))

NormalizeLabelKeep(label) == label
NormalizeLabel(label) == IF label \notin Labels THEN "NEUTRAL" ELSE label

Fallback == [raised |-> FALSE, label |-> "NEUTRAL", confidence |-> 50, set |-> TRUE]

\* the body of the try block: raised is TRUE where an exception leaves it
TryBody(out) ==
  IF out.kind # "object"
    THEN [raised |-> TRUE, label |-> "", confidence |-> 0, set |-> TRUE]
    ELSE LET rawLabel == IF out.label.t = "absent" THEN JStr("NEUTRAL") ELSE out.label
             rawConf == IF out.confidence.t = "absent" THEN JNum(50) ELSE out.confidence
             label == Upper(PyStr(rawLabel))
             conf == PyFloat(rawConf)
         IN IF ~conf.ok
              THEN [raised |-> TRUE, label |-> "", confidence |-> 0, set |-> TRUE]
              ELSE [raised |-> FALSE, label |-> NormalizeLabel(label),
                    confidence |-> Clamp(conf).n, set |-> TRUE]

analyze_comment_with_openai(out) ==
  LET r == TryBody(out) IN IF r.raised THEN Fallback ELSE r

\* ------------------------------------------------------------------ store
\* a row of MovieDB: info stands for the four copied text columns
\* (director, open_date, genre, poster_url)
MovieRow(id, name, info) == [id |-> id, name |-> name, info |-> info]
\* a row of CommentDB: the body text is copied, opaque data and is left out
CommentRow(id, movie_id, user_name, emotion, confidence_score, rate_score) ==
  [id |-> id, movie_id |-> movie_id, user_name |-> user_name, emotion |-> emotion,
   confidence_score |-> confidence_score, rate_score |-> rate_score]

Ids(table) == {table[i].id : i \in DOMAIN table}
MaxOf(S) == CHOOSE x \in S : \A y \in S : y <= x

\* the id the database gives an inserted row (id is None at insert):
\* the rowid, one more than the largest rowid in the table
NextRowId(table) == IF table = <<>> THEN 1 ELSE MaxOf(Ids(table)) + 1

\* select(MovieDB).where(MovieDB.name == name).first(): index of the row, 0 for None
movie_by_name(name) ==
  IF \E i \in DOMAIN movies : movies[i].name = name
    THEN CHOOSE i \in DOMAIN movies :
           movies[i].name = name /\ \A j \in DOMAIN movies : movies[j].name = name => i <= j
    ELSE 0

\* select(CommentDB).where(CommentDB.movie_id == movie_id).all()
comments_of_all(movie_id) == comments
comments_of(movie_id) == SelectSeq(comments, LAMBDA c : c.movie_id = movie_id)

\* select(CommentDB).where(movie_id == ..., user_name == ...).first(): index, 0 for None
first_comment_by(movie_id, user_name) ==
  LET hit(i) == comments[i].movie_id = movie_id /\ comments[i].user_name = user_name
  IN IF \E i \in DOMAIN comments : hit(i)
       THEN CHOOSE i \in DOMAIN comments : hit(i) /\ \A j \in DOMAIN comments : hit(j) => i <= j
       ELSE 0

\* the unique index on MovieDB.name rejects the insert of a second row with the name
UniqueViolationOff(name) == FALSE
UniqueViolation(name) == \E i \in DOMAIN movies : movies[i].name = name

\* DELETE ... WHERE id = ? for each id of ids
DeleteIds(table, ids) == SelectSeq(table, LAMBDA r : r.id \notin ids)

RECURSIVE SumRate(_), SumConf(_)
SumRate(cs) == IF cs = <<>> THEN 0 ELSE Head(cs).rate_score + SumRate(Tail(cs))
SumConf(cs) == IF cs = <<>> THEN 0 ELSE Head(cs).confidence_score + SumConf(Tail(cs))

\* ------------------------------------------------------------ responses
\* rows is a history field: the number of rows the handler's commit wrote or deleted
Frac(num, den) == [num |-> num, den |-> den]
Zero == Frac(0, 1)
NoList == <<>>
Response(status, detail) ==
  [status |-> status, detail |-> detail, average_rate_score |-> Zero,
   average_confidence_score |-> Zero, movies |-> NoList, rows |-> 0]
NoResp == Response(0, "")
NoReq == [op |-> "none", name |-> "", info |-> "", user_name |-> "", rate_score |-> 0]
NoLoc == [movie_id |-> 0, target_id |-> 0, emotion |-> "", score |-> 0]

CommentOut(movie_name, c) ==
  [movie_name |-> movie_name, user_name |-> c.user_name, emotion |-> c.emotion,
   confidence_score |-> c.confidence_score, rate_score |-> c.rate_score]

to_movie_out(m) ==
  LET cs == comments_of(m.id)
  IN [name |-> m.name, info |-> m.info,
      comments |-> [i \in DOMAIN cs |-> CommentOut(m.name, cs[i])]]

movies_out == [i \in DOMAIN movies |-> to_movie_out(movies[i])]

\* ------------------------------------------------------------------ init
Init ==
  /\ movies = <<>>
  /\ comments = <<>>
  /\ served = 0
  /\ pc = [p \in Procs |-> "idle"]
  /\ req = [p \in Procs |-> NoReq]
  /\ loc = [p \in Procs |-> NoLoc]
  /\ resp = [p \in Procs |-> NoResp]
  /\ out_text = NoText
  /\ analysis = NoAnalysis

\* a request reaches the handler, which runs in the idle worker p
Accept(p, r) ==
  /\ pc[p] = "idle"
  /\ served < MaxRequests
  /\ served' = served + 1
  /\ req' = [req EXCEPT ![p] = r]

\* the handler of p goes on to the step at label with the locals l
Goto(p, label, l) ==
  /\ pc' = [pc EXCEPT ![p] = label]
  /\ loc' = [loc EXCEPT ![p] = l]
  /\ UNCHANGED resp

\* the handler of p ends with the response r
Finish(p, r) ==
  /\ pc' = [pc EXCEPT ![p] = "done"]
  /\ loc' = [loc EXCEPT ![p] = NoLoc]
  /\ resp' = [resp EXCEPT ![p] = r]

\* the response is delivered and the request's session is closed
Return(p) ==
  /\ pc[p] = "done"
  /\ pc' = [pc EXCEPT ![p] = "idle"]
  /\ req' = [req EXCEPT ![p] = NoReq]
  /\ resp' = [resp EXCEPT ![p] = NoResp]
  /\ UNCHANGED <<store, served, loc, adapter>>

\* --------------------------------------------------------------- movies
get_movies(p) ==
  /\ Accept(p, [NoReq EXCEPT !.op = "get_movies"])
  /\ Finish(p, [Response(200, "") EXCEPT !.movies = movies_out])
  /\ UNCHANGED <<store, adapter>>

\* add_movie up to the pre-check
add_movie_check_skip(p, name, info) ==
  /\ Accept(p, [NoReq EXCEPT !.op = "add_movie", !.name = name, !.info = info])
  /\ Goto(p, "am_insert", NoLoc)
  /\ UNCHANGED <<store, adapter>>
add_movie_check(p, name, info) ==
  /\ Accept(p, [NoReq EXCEPT !.op = "add_movie", !.name = name, !.info = info])
  /\ IF movie_by_name(name) # 0
       THEN Finish(p, Response(400, "Movie already exists"))
       ELSE Goto(p, "am_insert", NoLoc)
  /\ UNCHANGED <<store, adapter>>

\* session.add(m); session.commit()
add_movie_commit(p) ==
  /\ pc[p] = "am_insert"
  /\ IF UniqueViolation(req[p].name)
       THEN /\ Finish(p, Response(500, "IntegrityError"))
            /\ UNCHANGED movies
       ELSE /\ movies' = Append(movies, MovieRow(NextRowId(movies), req[p].name, req[p].info))
            /\ Finish(p, [Response(200, "Movie added successfully") EXCEPT !.rows = 1])
  /\ UNCHANGED <<comments, served, req, adapter>>

\* delete_movie up to the lookup of the movie
delete_movie_lookup_silent(p, name) ==
  /\ Accept(p, [NoReq EXCEPT !.op = "delete_movie", !.name = name])
  /\ LET i == movie_by_name(name)
     IN IF i = 0
          THEN Finish(p, Response(200, "Movie deleted successfully"))
          ELSE Goto(p, "dm_commit", [NoLoc EXCEPT !.movie_id = movies[i].id])
  /\ UNCHANGED <<store, adapter>>
delete_movie_lookup(p, name) ==
  /\ Accept(p, [NoReq EXCEPT !.op = "delete_movie", !.name = name])
  /\ LET i == movie_by_name(name)
     IN IF i = 0
          THEN Finish(p, Response(404, "Movie not found"))
          ELSE Goto(p, "dm_commit", [NoLoc EXCEPT !.movie_id = movies[i].id])
  /\ UNCHANGED <<store, adapter>>

\* the comments of the movie are selected and deleted, the movie is deleted, commit
delete_movie_commit_keep(p) ==
  /\ pc[p] = "dm_commit"
  /\ comments' = comments
  /\ movies' = DeleteIds(movies, {loc[p].movie_id})
  /\ Finish(p, [Response(200, "Movie deleted successfully") EXCEPT
                  !.rows = (Len(movies) - Len(movies')) + (Len(comments) - Len(comments'))])
  /\ UNCHANGED <<served, req, adapter>>
delete_movie_commit(p) ==
  /\ pc[p] = "dm_commit"
  /\ LET cs == comments_of(loc[p].movie_id)
     IN comments' = DeleteIds(comments, Ids(cs))
  /\ movies' = DeleteIds(movies, {loc[p].movie_id})
  /\ Finish(p, [Response(200, "Movie deleted successfully") EXCEPT
                  !.rows = (Len(movies) - Len(movies')) + (Len(comments) - Len(comments'))])
  /\ UNCHANGED <<served, req, adapter>>

\* ------------------------------------------------------------- comments
\* the texts the remote model answers with while requests are served
RemoteSamples == {Object(JStr("positive"), JNum(150)), Object(JStr("HAPPY"), JNum(30))}

\* add_comment up to the lookup of the movie (the rating is validated at the boundary)
add_comment_lookup_lax(p, name, user_name, rate_score) ==
  /\ Accept(p, [NoReq EXCEPT !.op = "add_comment", !.name = name,
                             !.user_name = user_name, !.rate_score = rate_score])
  /\ IF rate_score < 1 \/ rate_score > 5
       THEN Finish(p, Response(422, "Validation error"))
       ELSE LET i == movie_by_name(name)
            IN Goto(p, "ac_classify",
                    [NoLoc EXCEPT !.movie_id = IF i = 0 THEN 0 ELSE movies[i].id])
  /\ UNCHANGED <<store, adapter>>
add_comment_lookup(p, name, user_name, rate_score) ==
  /\ Accept(p, [NoReq EXCEPT !.op = "add_comment", !.name = name,
                             !.user_name = user_name, !.rate_score = rate_score])
  /\ IF rate_score < 1 \/ rate_score > 5
       THEN Finish(p, Response(422, "Validation error"))
       ELSE LET i == movie_by_name(name)
            IN IF i = 0
                 THEN Finish(p, Response(404, "Movie not found"))
                 ELSE Goto(p, "ac_classify", [NoLoc EXCEPT !.movie_id = movies[i].id])
  /\ UNCHANGED <<store, adapter>>

\* the blocking call of the classifier: the remote model answers with the text out
add_comment_classify(p, out) ==
  /\ pc[p] = "ac_classify"
  /\ LET r == analyze_comment_with_openai(out)
     IN Goto(p, "ac_commit", [loc[p] EXCEPT !.emotion = r.label, !.score = r.confidence])
  /\ UNCHANGED <<store, served, req, adapter>>

\* session.add(c); session.commit()
add_comment_commit(p) ==
  /\ pc[p] = "ac_commit"
  /\ comments' = Append(comments, CommentRow(NextRowId(comments), loc[p].movie_id,
                                             req[p].user_name, loc[p].emotion, loc[p].score,
                                             req[p].rate_score))
  /\ Finish(p, [Response(200, "Comment added successfully") EXCEPT !.rows = 1])
  /\ UNCHANGED <<movies, served, req, adapter>>

\* delete_comment up to the lookup of the movie and of the target comment
delete_comment_lookup_silent(p, name, user_name) ==
  /\ Accept(p, [NoReq EXCEPT !.op = "delete_comment", !.name = name, !.user_name = user_name])
  /\ LET i == movie_by_name(name)
     IN IF i = 0
          THEN Finish(p, Response(404, "Movie not found"))
          ELSE LET t == first_comment_by(movies[i].id, user_name)
               IN IF t = 0
                    THEN Finish(p, Response(200, "Comment deleted successfully"))
                    ELSE Goto(p, "dc_commit", [NoLoc EXCEPT !.movie_id = movies[i].id,
                                                            !.target_id = comments[t].id])
  /\ UNCHANGED <<store, adapter>>
delete_comment_lookup(p, name, user_name) ==
  /\ Accept(p, [NoReq EXCEPT !.op = "delete_comment", !.name = name, !.user_name = user_name])
  /\ LET i == movie_by_name(name)
     IN IF i = 0
          THEN Finish(p, Response(404, "Movie not found"))
          ELSE LET t == first_comment_by(movies[i].id, user_name)
               IN IF t = 0
                    THEN Finish(p, Response(404, "Comment not found"))
                    ELSE Goto(p, "dc_commit", [NoLoc EXCEPT !.movie_id = movies[i].id,
                                                            !.target_id = comments[t].id])
  /\ UNCHANGED <<store, adapter>>

\* session.delete(target); session.commit()
delete_comment_commit_all(p) ==
  /\ pc[p] = "dc_commit"
  /\ comments' = SelectSeq(comments, LAMBDA c : ~(c.movie_id = loc[p].movie_id
                                                   /\ c.user_name = req[p].user_name))
  /\ Finish(p, [Response(200, "Comment deleted successfully") EXCEPT
                  !.rows = Len(comments) - Len(comments')])
  /\ UNCHANGED <<movies, served, req, adapter>>
delete_comment_commit(p) ==
  /\ pc[p] = "dc_commit"
  /\ comments' = DeleteIds(comments, {loc[p].target_id})
  /\ Finish(p, [Response(200, "Comment deleted successfully") EXCEPT
                  !.rows = Len(comments) - Len(comments')])
  /\ UNCHANGED <<movies, served, req, adapter>>

compute_average_rating(p, name) ==
  /\ Accept(p, [NoReq EXCEPT !.op = "average_score", !.name = name])
  /\ LET i == movie_by_name(name)
     IN IF i = 0
          THEN Finish(p, Response(404, "Movie not found"))
          ELSE LET cs == comments_of(movies[i].id)
               IN IF Len(cs) = 0
                    THEN Finish(p, Response(200, ""))
                    ELSE Finish(p, [Response(200, "") EXCEPT
                                      !.average_rate_score = Frac(SumRate(cs), Len(cs)),
                                      !.average_confidence_score = Frac(SumConf(cs), Len(cs))])
  /\ UNCHANGED <<store, adapter>>

\* ------------------------------------------------------- specifications
Next ==
  \E p \in Procs :
    \/ get_movies(p)
    \/ \E name \in Names, info \in Infos : add_movie_check(p, name, info)
    \/ add_movie_commit(p)
    \/ \E name \in Names : delete_movie_lookup(p, name)
    \/ delete_movie_commit(p)
    \/ \E name \in Names, user_name \in Users, rate_score \in RateInputs :
         add_comment_lookup(p, name, user_name, rate_score)
    \/ \E out \in RemoteSamples : add_comment_classify(p, out)
    \/ add_comment_commit(p)
    \/ \E name \in Names, user_name \in Users : delete_comment_lookup(p, name, user_name)
    \/ delete_comment_commit(p)
    \/ \E name \in Names : compute_average_rating(p, name)
    \/ Return(p)

Spec == Init /\ [][Next]_vars

\* the adapter alone: a text arrives from the remote model and is analysed
InitAdapter ==
  /\ movies = <<>>
  /\ comments = <<>>
  /\ served = 0
  /\ pc = [p \in Procs |-> "idle"]
  /\ req = [p \in Procs |-> NoReq]
  /\ loc = [p \in Procs |-> NoLoc]
  /\ resp = [p \in Procs |-> NoResp]
  /\ out_text \in Payloads
  /\ analysis = NoAnalysis

Analyze ==
  /\ ~analysis.set
  /\ analysis' = analyze_comment_with_openai(out_text)
  /\ UNCHANGED <<store, served, frames, out_text>>

Receive ==
  /\ analysis.set
  /\ out_text' \in Payloads
  /\ analysis' = NoAnalysis
  /\ UNCHANGED <<store, served, frames>>

NextAdapter == Analyze \/ Receive

SpecAdapter == InitAdapter /\ [][NextAdapter]_vars

TypeOK ==
  /\ \A i \in DOMAIN movies : movies[i].name \in Names /\ movies[i].info \in Infos
  /\ \A i \in DOMAIN comments :
       /\ comments[i].user_name \in Users
       /\ comments[i].rate_score \in 1..5
       /\ comments[i].emotion \in Labels
       /\ comments[i].confidence_score \in 0..100
  /\ served <= MaxRequests

\* ------------------------------------------------------------ properties
HasMovie(name) == \E i \in DOMAIN movies : movies[i].name = name
StoredAs(id, name) == \E i \in DOMAIN movies : movies[i].id = id /\ movies[i].name = name
\* worker p takes up a request of operation op in this step
Takes(p, op) == pc[p] = "idle" /\ req'[p].op = op
Matches(movie_id, user_name) ==
  {i \in DOMAIN comments : comments[i].movie_id = movie_id /\ comments[i].user_name = user_name}
MinOf(S) == CHOOSE x \in S : \A y \in S : x <= y
RemoveAt(seq, k) == [i \in 1..(Len(seq) - 1) |-> IF i < k THEN seq[i] ELSE seq[i + 1]]
RECURSIVE RateOver(_), ConfOver(_)
RateOver(S) == IF S = {} THEN 0
               ELSE LET i == CHOOSE x \in S : TRUE
                    IN comments[i].rate_score + RateOver(S \ {i})
ConfOver(S) == IF S = {} THEN 0
               ELSE LET i == CHOOSE x \in S : TRUE
                    IN comments[i].confidence_score + ConfOver(S \ {i})

\* C1: add_movie with the name of a stored movie answers 400 (Conflict) and
\* leaves the movies and the comments as they were.
C1_DuplicateAddIsConflict ==
  [][\A p \in Procs :
       (Takes(p, "add_movie") /\ HasMovie(req'[p].name))
         => /\ pc'[p] = "done"
            /\ resp'[p].status = 400
            /\ movies' = movies
            /\ comments' = comments]_vars

C1_Witness ==
  \E p \in Procs : pc[p] = "done" /\ req[p].op = "add_movie" /\ resp[p].status = 400
                   /\ HasMovie(req[p].name)

C3_CommentOnMissingMovie ==
  [][\A p \in Procs :
       (Takes(p, "add_comment") /\ req'[p].rate_score \in 1..5 /\ ~HasMovie(req'[p].name))
         => /\ pc'[p] = "done"
            /\ loc'[p] = NoLoc
            /\ resp'[p].status = 404
            /\ movies' = movies
            /\ comments' = comments]_vars

C3_Witness ==
  \E p \in Procs : /\ pc[p] = "done" /\ req[p].op = "add_comment"
                   /\ resp[p].status = 404 /\ resp[p].detail = "Movie not found"
                   /\ ~HasMovie(req[p].name)

\* C4: average_score of a stored movie with n >= 1 comments is the sum of the
\* ratings over n and the sum of the confidences over n, taken over the comments
\* whose movie_id is the movie's id; with no comment it is (0.0, 0.0) with
\* status 200; for a name of no stored movie it is 404.
C4_AverageScores ==
  [][\A p \in Procs :
       Takes(p, "average_score")
         => /\ pc'[p] = "done"
            /\ movies' = movies /\ comments' = comments
            /\ IF ~HasMovie(req'[p].name)
                 THEN resp'[p].status = 404
                 ELSE LET m == movies[CHOOSE i \in DOMAIN movies : movies[i].name = req'[p].name]
                          S == {i \in DOMAIN comments : comments[i].movie_id = m.id}
                          n == Cardinality(S)
                          r == resp'[p]
                      IN /\ r.status = 200
                         /\ r.average_rate_score.den > 0
                         /\ r.average_confidence_score.den > 0
                         /\ IF n = 0
                              THEN r.average_rate_score.num = 0
                                   /\ r.average_confidence_score.num = 0
                              ELSE /\ r.average_rate_score.num * n
                                        = RateOver(S) * r.average_rate_score.den
                                   /\ r.average_confidence_score.num * n
                                        = ConfOver(S) * r.average_confidence_score.den]_vars

C4_Witness ==
  \E p \in Procs : /\ pc[p] = "done" /\ req[p].op = "average_score" /\ resp[p].status = 200
                   /\ resp[p].average_rate_score = Frac(6, 2)
                   /\ resp[p].average_confidence_score = Frac(130, 2)

\* C5 as stated: delete_comment for a stored movie without a comment by the
\* author answers success and changes nothing, and 404 is answered only when the
\* movie does not exist.
C5_Original ==
  [][\A p \in Procs :
       Takes(p, "delete_comment")
         => LET i == movie_by_name(req'[p].name)
            IN /\ (i # 0 /\ Matches(movies[i].id, req'[p].user_name) = {})
                    => (pc'[p] = "done" /\ resp'[p].status = 200
                        /\ movies' = movies /\ comments' = comments)
               /\ (pc'[p] = "done" /\ resp'[p].status = 404) => i = 0]_vars

\* C5 amended: delete_comment for a stored movie without a comment by the
\* author answers 404 "Comment not found" and changes nothing; for a name of no
\* stored movie it answers 404 "Movie not found" and changes nothing.
C5_MissingCommentIsNotFound ==
  [][\A p \in Procs :
       Takes(p, "delete_comment")
         => LET i == movie_by_name(req'[p].name)
            IN /\ (i # 0 /\ Matches(movies[i].id, req'[p].user_name) = {})
                    => (pc'[p] = "done" /\ resp'[p].status = 404
                        /\ resp'[p].detail = "Comment not found"
                        /\ movies' = movies /\ comments' = comments)
               /\ i = 0
                    => (pc'[p] = "done" /\ resp'[p].status = 404
                        /\ resp'[p].detail = "Movie not found"
                        /\ movies' = movies /\ comments' = comments)]_vars

C5_Witness ==
  \E p \in Procs : /\ pc[p] = "done" /\ req[p].op = "delete_comment"
                   /\ resp[p].status = 404 /\ resp[p].detail = "Comment not found"
                   /\ HasMovie(req[p].name)

\* C6 as stated: delete_movie for a name of no stored movie answers success
\* and changes nothing.
C6_Original ==
  [][\A p \in Procs :
       (Takes(p, "delete_movie") /\ ~HasMovie(req'[p].name))
         => /\ pc'[p] = "done"
            /\ resp'[p].status = 200
            /\ movies' = movies
            /\ comments' = comments]_vars

\* C6 amended: delete_movie for a name of no stored movie answers 404
\* "Movie not found" and changes nothing.
C6_MissingMovieIsNotFound ==
  [][\A p \in Procs :
       (Takes(p, "delete_movie") /\ ~HasMovie(req'[p].name))
         => /\ pc'[p] = "done"
            /\ resp'[p].status = 404
            /\ resp'[p].detail = "Movie not found"
            /\ movies' = movies
            /\ comments' = comments]_vars

C6_Witness ==
  \E p \in Procs : /\ pc[p] = "done" /\ req[p].op = "delete_movie"
                   /\ resp[p].status = 404 /\ ~HasMovie(req[p].name)

\* C7 as stated: a text that is not the JSON payload, or whose label is none of
\* the three, or that lacks a field, gives exactly (NEUTRAL, 0.5); a payload with
\* one of the three labels and a number gives that label and the clamped number.
C7_Original ==
  analysis.set =>
    LET o == out_text
        bad == \/ o.kind # "object"
               \/ o.label.t # "str"
               \/ o.confidence.t = "absent"
               \/ (o.label.t = "str" /\ Upper(o.label.s) \notin Labels)
        good == /\ o.kind = "object"
                /\ o.label.t = "str" /\ o.label.s \in Labels
                /\ o.confidence.t = "num"
    IN /\ ~analysis.raised
       /\ bad => (analysis.label = "NEUTRAL" /\ analysis.confidence = 50)
       /\ good => /\ analysis.label = o.label.s
                  /\ analysis.confidence \in 0..100
                  /\ (o.confidence.n \in 0..100 => analysis.confidence = o.confidence.n)

\* C7 amended: no error leaves the adapter.  A text that is not a JSON object,
\* or whose confidence is present but is not accepted by float(), gives exactly
\* (NEUTRAL, 0.5).  Otherwise the label is the upper-cased label when that is one
\* of the three and NEUTRAL when it is not or is missing, and the confidence is
\* the given one clamped into [0,1], or 0.5 when it is missing.
C7_AdapterDefaults ==
  analysis.set =>
    LET o == out_text
        a == analysis
        unparsable == o.kind # "object" \/ o.confidence \in {Null, JStr("high")}
        wantLabel ==
          IF o.label.t = "str" /\ o.label.s \in {"POSITIVE", "positive"} THEN "POSITIVE"
          ELSE IF o.label.t = "str" /\ o.label.s \in {"NEGATIVE", "Negative"} THEN "NEGATIVE"
          ELSE "NEUTRAL"
        wantConf ==
          CASE o.confidence.t = "absent" -> 50
            [] o.confidence.t = "num" ->
                 IF o.confidence.n < 0 THEN 0
                 ELSE IF o.confidence.n > 100 THEN 100 ELSE o.confidence.n
            [] o.confidence.t = "bool" -> 100
            [] o.confidence.t = "nan" -> 100
            [] o.confidence = JStr("0.7") -> 70
            [] OTHER -> -1
    IN /\ ~a.raised
       /\ a.label \in Labels
       /\ a.confidence \in 0..100
       /\ IF unparsable
            THEN a.label = "NEUTRAL" /\ a.confidence = 50
            ELSE a.label = wantLabel /\ a.confidence = wantConf

C7_Witness ==
  /\ analysis.set
  /\ out_text = Object(JStr("HAPPY"), JNum(150))
  /\ analysis.label = "NEUTRAL"
  /\ analysis.confidence = 100

\* C8: the movie_id of every stored comment is the id of a stored movie.
C8_NoOrphanComment ==
  \A i \in DOMAIN comments : \E j \in DOMAIN movies : movies[j].id = comments[i].movie_id

\* C9: no two stored movies have the same name.
C9_UniqueMovieNames ==
  \A i, j \in DOMAIN movies : movies[i].name = movies[j].name => i = j

C9_Witness ==
  \E p \in Procs : /\ pc[p] = "done" /\ req[p].op = "add_movie" /\ resp[p].status = 500
                   /\ HasMovie(req[p].name)

====
